---- MODULE Spec2Model ----
(***************************************************************************)
(* A model of the url-pattern crate: tokenize (src/src/tokenizer.rs),      *)
(* Parser::parse (src/src/parser.rs) and generate_regexp /                 *)
(* regexp_for_pattern (src/src/lib.rs).                                    *)
(*                                                                         *)
(* A Rust `char` is a one-character TLA+ string; a Rust `String` is a      *)
(* sequence of such characters, except the generated regular expression,   *)
(* which is a TLA+ string built with \o.  Option<T> is None or the value.  *)
(***************************************************************************)
EXTENDS Integers, Sequences, FiniteSets, TLC

VARIABLES input, options, pc, status, error, pos, tokens, index,
          pending_fixed_value, parts, gen_index, result

vars == <<input, options, pc, status, error, pos, tokens, index,
          pending_fixed_value, parts, gen_index, result>>

(***************************************************************************)
(* Bounds of the model.                                                    *)
(***************************************************************************)
\* Every pattern over Alphabet of at most MaxLen characters is an input.
MaxLen == 3
\* Longest literal prefix / suffix text of the brace-group input family.
MaxAffix == 1

(***************************************************************************)
(* Characters and strings.                                                 *)
(***************************************************************************)
None == "None"

\* The character U+00E9, which is outside ASCII (for `chr.is_ascii()`); its
\* text is written U+00E9.
NonAsciiChar == "U+00E9"

Alphabet == {"a", "/", ":", "{", "}", "(", ")", "*", "?", "+", "\\", NonAsciiChar}

Letters == {"a", "b", "c", "d", "e", "f", "g", "h", "i", "j", "k", "l", "m",
            "n", "o", "p", "q", "r", "s", "t", "u", "v", "w", "x", "y", "z",
            "A", "B", "C", "D", "E", "F", "G", "H", "I", "J", "K", "L", "M",
            "N", "O", "P", "Q", "R", "S", "T", "U", "V", "W", "X", "Y", "Z"}

is_ascii(chr) == chr # NonAsciiChar

RECURSIVE Str(_)
\* The text of a character sequence.
Str(s) == IF s = <<>> THEN "" ELSE Head(s) \o Str(Tail(s))

\* Option<char> -> String, `map_or_else(|| String::new(), |chr| chr.to_string())`.
OptionToString(o) == IF o = None THEN <<>> ELSE <<o>>

(***************************************************************************)
(* Tokens.                                                                 *)
(***************************************************************************)
Token(type, value) == [type |-> type, value |-> value]

\* Option<Token>::None
NoToken == Token("None", <<>>)

IsSome(token) == token.type # "None"

RECURSIVE ScanName(_, _)
\* The `while let Some(chr) = iter.peek()` loop of the ':' arm: the number of
\* letters that follow position p (p characters already consumed).
ScanName(inp, p) ==
    IF p < Len(inp) /\ inp[p + 1] \in Letters
    THEN 1 + ScanName(inp, p + 1)
    ELSE 0

RECURSIVE ScanRegExp(_, _, _, _)
\* The `while let Some(chr) = iter.next()` loop of the '(' arm, from position
\* p with the given depth and the text collected so far.
ScanRegExp(inp, p, depth, regexp) ==
    IF p >= Len(inp)
    THEN [todo |-> FALSE, depth |-> depth, pos |-> p, regexp |-> regexp]
    ELSE LET chr == inp[p + 1] IN
         IF ~is_ascii(chr)
         THEN [todo |-> TRUE, depth |-> depth, pos |-> p + 1, regexp |-> regexp]
         ELSE IF chr = "("
         THEN ScanRegExp(inp, p + 1, depth + 1, Append(regexp, chr))
         ELSE IF chr = ")"
         THEN IF depth - 1 = 0
              THEN [todo |-> FALSE, depth |-> 0, pos |-> p + 1, regexp |-> regexp]
              ELSE ScanRegExp(inp, p + 1, depth - 1, Append(regexp, chr))
         ELSE ScanRegExp(inp, p + 1, depth, Append(regexp, chr))

(***************************************************************************)
(* Inputs.                                                                 *)
(***************************************************************************)
\* The patterns of the tests of lib.rs (the commented-out ones included).
TestPatterns ==
    { <<"a", "b", "c">>,
      <<"{", "f", "o", "o", "}">>,
      <<"{", "b", "a", "r", "}", "?">>,
      <<"/", ":", "b", "a", "r">>,
      <<"/", ":", "f", "o", "o", "/", ":", "b", "a", "r">>,
      <<"/", ":", "f", "o", "o", "/", ":", "b", "a", "r", "?">>,
      <<"/", ":", "f", "o", "o", "?", "/", ":", "b", "a", "r", "?">>,
      <<"/", ":", "f", "o", "o", "?", "/", ":", "b", "a", "r">>,
      <<"/">>,
      <<":", "f", "o", "o">>,
      <<"/", ":", "f", "o", "o">>,
      <<"/", ":", "f", "o", "o", "?">>,
      <<"{", ":", "f", "o", "o", "}", "?">>,
      <<"{", "a", "b", "}", "?">>,
      <<"/", ":", "f", "o", "o", "(", "b", "a", "r", ")", "?">>,
      <<"(", "b", "a", "r", ")">>,
      <<"/", "(", "b", "a", "r", ")">>,
      <<"/", "(", "b", "a", "r", ")", "?">>,
      <<"{", "a", ":", "f", "o", "o", "(", "b", "a", "r", ")", "b", "}", "?">>,
      <<"{", "(", "b", "a", "r", ")", "}", "?">> }

\* Further patterns the documentation of the behaviour names.
DocPatterns ==
    { <<"(", "a", "b", "c">>,
      <<"(", "a", "(", "b", ")">>,
      <<"{", "a", "b", "c">>,
      <<":", "a", "/", ":", "a">>,
      <<"*", "/", "*">>,
      <<"{", "/", "}", "?">> }

\* All character sequences over S of length at most n.
StringsUpTo(S, n) == UNION {[1..k -> S] : k \in 0..n}

\* "{" prefix-text placeholder suffix-text "}" modifier, between literal text.
BracePatterns ==
    LET Affix == StringsUpTo({"a", "/"}, MaxAffix)
        Placeholder == {<<>>, <<":">>, <<":", "a">>, <<"*">>, <<"(", "a", ")">>}
        Mod == {<<>>, <<"?">>, <<"*">>, <<"+">>}
        Lit == {<<>>, <<"a">>}
    IN {l1 \o <<"{">> \o p \o ph \o s \o <<"}">> \o m \o l2 :
            l1 \in Lit, p \in Affix, ph \in Placeholder, s \in Affix,
            m \in Mod, l2 \in Lit}

Patterns ==
    StringsUpTo(Alphabet, MaxLen) \cup BracePatterns \cup TestPatterns \cup DocPatterns

\* Options { delimiter, prefix }: each unset or a character.
OptionValues == [delimiter : {None, "/"}, prefix : {None, "/", "a"}]

(***************************************************************************)
(* State after `regexp_for_pattern(input, options)` is entered: tokenize    *)
(* has an empty token vector, Parser::new an index of 0, an empty pending  *)
(* fixed value and no parts.                                               *)
(***************************************************************************)
Init ==
    /\ input \in Patterns
    /\ options \in OptionValues
    /\ pc = "tokenize"
    /\ status = "running"
    /\ error = ""
    /\ pos = 0
    /\ tokens = <<>>
    /\ index = 0
    /\ pending_fixed_value = <<>>
    /\ parts = <<>>
    /\ gen_index = 0
    /\ result = ""

(***************************************************************************)
(* tokenize: one action per iteration of its outer loop, by match arm.     *)
(***************************************************************************)
\* The outer loop has a next character, which is chr.
AtChar(chr) ==
    /\ pc = "tokenize"
    /\ status = "running"
    /\ pos < Len(input)
    /\ input[pos + 1] = chr

\* Push one token for the single character just read.
PushSimple(type) ==
    /\ tokens' = Append(tokens, Token(type, <<>>))
    /\ pos' = pos + 1
    /\ UNCHANGED <<input, options, pc, status, error, index,
                   pending_fixed_value, parts, gen_index, result>>

\* The process aborts (panic!, unimplemented!, todo!, a failed assert!).
Abort(message) ==
    /\ status' = "panic"
    /\ error' = message
    /\ pc' = "done"

\* A function returns Err(e).
Fail(e) ==
    /\ status' = "err"
    /\ error' = e
    /\ pc' = "done"

TokAsterisk == AtChar("*") /\ PushSimple("Asterisk")

TokPlus == AtChar("+") /\ PushSimple("Plus")

TokQuestionMark == AtChar("?") /\ PushSimple("QuestionMark")

TokBackslash ==
    /\ AtChar("\\")
    /\ Abort("not implemented: EscapedChar")
    /\ pos' = pos + 1
    /\ UNCHANGED <<input, options, tokens, index, pending_fixed_value, parts,
                   gen_index, result>>

TokOpen == AtChar("{") /\ PushSimple("Open")

TokClose == AtChar("}") /\ PushSimple("Close")

TokName ==
    /\ AtChar(":")
    /\ LET n == ScanName(input, pos + 1) IN
         /\ tokens' = Append(tokens, Token("Name", SubSeq(input, pos + 2, pos + 1 + n)))
         /\ pos' = pos + 1 + n
    /\ UNCHANGED <<input, options, pc, status, error, index,
                   pending_fixed_value, parts, gen_index, result>>

\* The '(' arm when the scan ends with depth 0: the group is closed.
TokRegExp ==
    /\ AtChar("(")
    /\ LET r == ScanRegExp(input, pos + 1, 1, <<>>) IN
         /\ ~r.todo
         /\ r.depth = 0
         /\ tokens' = Append(tokens, Token("RegExp", r.regexp))
         /\ pos' = r.pos
    /\ UNCHANGED <<input, options, pc, status, error, index,
                   pending_fixed_value, parts, gen_index, result>>

\* The '(' arm when the input ends with depth # 0.
TokParenthesesMissmatch ==
    /\ AtChar("(")
    /\ LET r == ScanRegExp(input, pos + 1, 1, <<>>) IN
         /\ ~r.todo
         /\ r.depth # 0
         /\ pos' = r.pos
    /\ Fail("ParenthesesMissmatch")
    /\ UNCHANGED <<input, options, tokens, index, pending_fixed_value, parts,
                   gen_index, result>>

\* The '(' arm when the scan meets a character that is not ASCII: todo!().
TokRegExpTodo ==
    /\ AtChar("(")
    /\ LET r == ScanRegExp(input, pos + 1, 1, <<>>) IN
         /\ r.todo
         /\ pos' = r.pos
    /\ Abort("not yet implemented")
    /\ UNCHANGED <<input, options, tokens, index, pending_fixed_value, parts,
                   gen_index, result>>

SyntaxChars == {"*", "+", "?", "\\", "{", "}", ":", "("}

TokChar ==
    /\ pc = "tokenize"
    /\ status = "running"
    /\ pos < Len(input)
    /\ input[pos + 1] \notin SyntaxChars
    /\ tokens' = Append(tokens, Token("Char", <<input[pos + 1]>>))
    /\ pos' = pos + 1
    /\ UNCHANGED <<input, options, pc, status, error, index,
                   pending_fixed_value, parts, gen_index, result>>

\* The input is exhausted: push End and return Ok(tokens); the parser runs next.
TokEnd ==
    /\ pc = "tokenize"
    /\ status = "running"
    /\ pos = Len(input)
    /\ tokens' = Append(tokens, Token("End", <<>>))
    /\ pc' = "parse"
    /\ UNCHANGED <<input, options, status, error, pos, index,
                   pending_fixed_value, parts, gen_index, result>>

(***************************************************************************)
(* Parser: the helpers.  Each returns the values the Rust method returns   *)
(* together with the fields of the parser it changed; `oob` records an     *)
(* access `self.tokens[self.index]` with index >= tokens.len().            *)
(***************************************************************************)
\* Part::FixedText { value, modifier }
FixedText(value, modifier) ==
    [type |-> "FixedText", name |-> <<>>, value |-> value,
     modifier |-> modifier, prefix |-> <<>>, suffix |-> <<>>]

\* Part::SegmentWildcard / Part::FullWildcard { name, modifier, prefix, suffix }
Wildcard(type, name, modifier, prefix, suffix) ==
    [type |-> type, name |-> name, value |-> <<>>,
     modifier |-> modifier, prefix |-> prefix, suffix |-> suffix]

SegmentWildcardMarker ==
    <<"<", "s", "e", "g", "m", "e", "n", "t", " ",
      "w", "i", "l", "d", "c", "a", "r", "d", ">">>

FullWildcardMarker ==
    <<"<", "f", "u", "l", "l", " ", "w", "i", "l", "d", "c", "a", "r", "d", ">">>

\* try_consume_token without `self.index += 1`.
try_consume_token_no_advance(toks, idx, type) ==
    IF idx >= Len(toks)
    THEN [token |-> NoToken, index |-> idx, oob |-> TRUE]
    ELSE IF toks[idx + 1].type = type
    THEN [token |-> toks[idx + 1], index |-> idx, oob |-> FALSE]
    ELSE [token |-> NoToken, index |-> idx, oob |-> FALSE]

try_consume_token(toks, idx, type) ==
    IF idx >= Len(toks)
    THEN [token |-> NoToken, index |-> idx, oob |-> TRUE]
    ELSE IF toks[idx + 1].type = type
    THEN [token |-> toks[idx + 1], index |-> idx + 1, oob |-> FALSE]
    ELSE [token |-> NoToken, index |-> idx, oob |-> FALSE]

\* try_consume_modifier with `self.index += 1` run for every token, a
\* modifier or not.
try_consume_modifier_always_advance(toks, idx) ==
    IF idx >= Len(toks)
    THEN [modifier |-> None, index |-> idx, oob |-> TRUE]
    ELSE IF toks[idx + 1].type = "QuestionMark"
    THEN [modifier |-> "Optional", index |-> idx + 1, oob |-> FALSE]
    ELSE IF toks[idx + 1].type = "Plus"
    THEN [modifier |-> "OneOrMore", index |-> idx + 1, oob |-> FALSE]
    ELSE IF toks[idx + 1].type = "Asterisk"
    THEN [modifier |-> "ZeroOrMore", index |-> idx + 1, oob |-> FALSE]
    ELSE [modifier |-> None, index |-> idx + 1, oob |-> FALSE]

try_consume_modifier(toks, idx) ==
    IF idx >= Len(toks)
    THEN [modifier |-> None, index |-> idx, oob |-> TRUE]
    ELSE IF toks[idx + 1].type = "QuestionMark"
    THEN [modifier |-> "Optional", index |-> idx + 1, oob |-> FALSE]
    ELSE IF toks[idx + 1].type = "Plus"
    THEN [modifier |-> "OneOrMore", index |-> idx + 1, oob |-> FALSE]
    ELSE IF toks[idx + 1].type = "Asterisk"
    THEN [modifier |-> "ZeroOrMore", index |-> idx + 1, oob |-> FALSE]
    ELSE [modifier |-> None, index |-> idx, oob |-> FALSE]

try_consume_regexp_or_wildcard(toks, idx, name_token) ==
    LET t == try_consume_token(toks, idx, "RegExp") IN
    IF ~IsSome(name_token) /\ ~IsSome(t.token)
    THEN LET a == try_consume_token(toks, t.index, "Asterisk") IN
         [token |-> a.token, index |-> a.index, oob |-> t.oob \/ a.oob]
    ELSE t

RECURSIVE consume_text_from(_, _, _)
consume_text_from(toks, idx, text) ==
    IF idx >= Len(toks)
    THEN [text |-> text, index |-> idx, oob |-> TRUE]
    ELSE IF toks[idx + 1].type \in {"Char", "EscapedChar"}
    THEN consume_text_from(toks, idx + 1, text \o toks[idx + 1].value)
    ELSE [text |-> text, index |-> idx, oob |-> FALSE]

\* consume_text that takes one text token at most (an `if` for the `loop`).
consume_text_single(toks, idx) ==
    IF idx >= Len(toks)
    THEN [text |-> <<>>, index |-> idx, oob |-> TRUE]
    ELSE IF toks[idx + 1].type \in {"Char", "EscapedChar"}
    THEN [text |-> toks[idx + 1].value, index |-> idx + 1, oob |-> FALSE]
    ELSE [text |-> <<>>, index |-> idx, oob |-> FALSE]

consume_text(toks, idx) == consume_text_from(toks, idx, <<>>)

maybe_add_part_from_pending_fixed_value(pending, ps) ==
    IF pending = <<>>
    THEN [pending |-> pending, parts |-> ps]
    ELSE [pending |-> <<>>, parts |-> Append(ps, FixedText(pending, None))]

\* Lines 87-103 of parse: the candidate prefix character is moved to the
\* pending fixed value when options.prefix is Some and differs from it.
resolve_prefix(char_token, opt_prefix, pending) ==
    LET prefix == IF IsSome(char_token) THEN char_token.value ELSE <<>> IN
    IF prefix # <<>> /\ opt_prefix # None /\ prefix # <<opt_prefix>>
    THEN [prefix |-> <<>>, pending |-> pending \o prefix]
    ELSE [prefix |-> prefix, pending |-> pending]

\* Steps 6-9 of add_part.
regexp_value_of(regexp_or_wildcard) ==
    IF ~IsSome(regexp_or_wildcard) THEN SegmentWildcardMarker
    ELSE IF regexp_or_wildcard.type = "Asterisk" THEN FullWildcardMarker
    ELSE regexp_or_wildcard.value

\* Steps 13-15 of add_part.
part_name_of(name) ==
    IF IsSome(name) THEN name.value ELSE <<"1">>

\* The final if / else-if of add_part: the part pushed for a placeholder.
push_placeholder(ps, regexp_value, name, modifier, prefix, suffix) ==
    IF regexp_value = SegmentWildcardMarker
    THEN Append(ps, Wildcard("SegmentWildcard", name, modifier, prefix, suffix))
    ELSE IF regexp_value = FullWildcardMarker
    THEN Append(ps, Wildcard("FullWildcard", name, modifier, prefix, suffix))
    ELSE ps

\* add_part_group_text pushing the text as a part of its own.
add_part_group_text_as_part(pending, ps, prefix, suffix) ==
    IF suffix # <<>>
    THEN [pending |-> pending, parts |-> ps,
          panic |-> "assertion failed: suffix.is_empty()"]
    ELSE [pending |-> pending, parts |-> Append(ps, FixedText(prefix, None)),
          panic |-> ""]

\* Step 3 of add_part (lines 243-252): a "{foo}" grouping.
add_part_group_text(pending, ps, prefix, suffix) ==
    IF suffix # <<>>
    THEN [pending |-> pending, parts |-> ps,
          panic |-> "assertion failed: suffix.is_empty()"]
    ELSE [pending |-> pending \o prefix, parts |-> ps, panic |-> ""]

add_part(pending, ps, prefix, name, regexp_or_wildcard, suffix, modifier) ==
    IF ~IsSome(name) /\ ~IsSome(regexp_or_wildcard) /\ modifier = None
    THEN add_part_group_text(pending, ps, prefix, suffix)
    ELSE LET m == maybe_add_part_from_pending_fixed_value(pending, ps) IN
         IF ~IsSome(name) /\ ~IsSome(regexp_or_wildcard)
         THEN IF suffix # <<>>
              THEN [pending |-> m.pending, parts |-> m.parts,
                    panic |-> "assertion failed: suffix.is_empty()"]
              ELSE IF prefix = <<>>
              THEN [pending |-> m.pending, parts |-> m.parts, panic |-> ""]
              ELSE [pending |-> m.pending,
                    parts |-> Append(m.parts, FixedText(prefix, modifier)),
                    panic |-> ""]
         ELSE IF IsSome(regexp_or_wildcard)
                 /\ regexp_or_wildcard.type \notin {"Asterisk", "RegExp"}
         THEN [pending |-> m.pending, parts |-> m.parts,
               panic |-> "invalid regexp_or_wildcard token"]
         ELSE IF IsSome(name) /\ name.type # "Name"
         THEN [pending |-> m.pending, parts |-> m.parts,
               panic |-> "invalid name token"]
         ELSE IF ~IsSome(name) /\ ~IsSome(regexp_or_wildcard)
         THEN [pending |-> m.pending, parts |-> m.parts,
               panic |-> "assertion failed: regexp_or_wildcard.is_some()"]
         ELSE [pending |-> m.pending,
               parts |-> push_placeholder(m.parts, regexp_value_of(regexp_or_wildcard),
                                          part_name_of(name), modifier, prefix, suffix),
               panic |-> ""]

(***************************************************************************)
(* Parser::parse: one iteration of its loop, as the values it leaves in    *)
(* the parser and how it ends: "continue", "break", or "panic" with the    *)
(* message.  `branch` names the arm of the loop body that ran.             *)
(***************************************************************************)
Iteration(branch, outcome, message, idx, pending, ps) ==
    [branch |-> branch, outcome |-> outcome, message |-> message,
     index |-> idx, pending |-> pending, parts |-> ps]

Ended(branch, oob, panic, idx, pending, ps) ==
    IF oob
    THEN Iteration(branch, "panic", "index out of bounds", idx, pending, ps)
    ELSE IF panic # ""
    THEN Iteration(branch, "panic", panic, idx, pending, ps)
    ELSE Iteration(branch, "continue", "", idx, pending, ps)

\* Lines 84-116: a name token or a regexp-or-wildcard token was consumed.
placeholder_branch(toks, opts, c, n, r, pending, ps) ==
    LET rp == resolve_prefix(c.token, opts.prefix, pending)
        m == maybe_add_part_from_pending_fixed_value(rp.pending, ps)
        mod == try_consume_modifier(toks, r.index)
        a == add_part(m.pending, m.parts, rp.prefix, n.token, r.token, <<>>,
                      mod.modifier)
    IN Ended("placeholder", c.oob \/ n.oob \/ r.oob \/ mod.oob, a.panic,
             mod.index, a.pending, a.parts)

\* Lines 140-166: an Open token was consumed at index idx - 1.
group_branch(toks, idx, oob, pending, ps) ==
    LET prefix == consume_text(toks, idx)
        name == try_consume_token(toks, prefix.index, "Name")
        rw == try_consume_regexp_or_wildcard(toks, name.index, name.token)
        suffix == consume_text(toks, rw.index)
        close == try_consume_token(toks, suffix.index, "Close")
        mod == try_consume_modifier(toks, close.index)
        a == add_part(pending, ps, prefix.text, name.token, rw.token,
                      suffix.text, mod.modifier)
        oob_to_close == oob \/ prefix.oob \/ name.oob \/ rw.oob \/ suffix.oob
                            \/ close.oob
    IN IF ~oob_to_close /\ ~IsSome(close.token)
       THEN Iteration("group", "panic", "missing close token", close.index,
                      pending, ps)
       ELSE Ended("group", oob_to_close \/ mod.oob, a.panic, mod.index,
                  a.pending, a.parts)

\* Lines 168-176: flush the pending fixed value and require End.
end_branch(toks, idx, oob, pending, ps) ==
    LET m == maybe_add_part_from_pending_fixed_value(pending, ps)
        end == try_consume_token(toks, idx, "End")
    IN IF oob \/ end.oob
       THEN Iteration("end", "panic", "index out of bounds", end.index,
                      m.pending, m.parts)
       ELSE IF ~IsSome(end.token)
       THEN Iteration("end", "panic", "expected end", end.index, m.pending, m.parts)
       ELSE Iteration("end", "break", "", end.index, m.pending, m.parts)

parse_iteration(toks, opts, idx, pending, ps) ==
    LET c == try_consume_token(toks, idx, "Char")
        n == try_consume_token(toks, c.index, "Name")
        r == try_consume_regexp_or_wildcard(toks, n.index, n.token)
    IN IF IsSome(n.token) \/ IsSome(r.token)
       THEN placeholder_branch(toks, opts, c, n, r, pending, ps)
       ELSE LET fixed == IF IsSome(c.token)
                         THEN c
                         ELSE try_consume_token(toks, r.index, "EscapedChar")
                head_oob == c.oob \/ n.oob \/ r.oob \/ fixed.oob
            IN IF IsSome(fixed.token)
               THEN Ended("fixed", head_oob, "", fixed.index,
                          pending \o fixed.token.value, ps)
               ELSE LET open == try_consume_token(toks, fixed.index, "Open") IN
                    IF IsSome(open.token)
                    THEN group_branch(toks, open.index, head_oob \/ open.oob,
                                      pending, ps)
                    ELSE end_branch(toks, open.index, head_oob \/ open.oob,
                                    pending, ps)

\* The iteration the parser is about to run.
NextIteration == parse_iteration(tokens, options, index, pending_fixed_value, parts)

\* The parser runs the next iteration of its loop, which is `it`.
RunIteration(it) ==
    /\ index' = it.index
    /\ pending_fixed_value' = it.pending
    /\ parts' = it.parts
    /\ IF it.outcome = "panic"
       THEN Abort(it.message)
       ELSE /\ pc' = IF it.outcome = "break" THEN "generate" ELSE "parse"
            /\ UNCHANGED <<status, error>>
    /\ UNCHANGED <<input, options, pos, tokens, gen_index, result>>

Parsing == pc = "parse" /\ status = "running"

ParsePlaceholder ==
    /\ Parsing
    /\ NextIteration.branch = "placeholder"
    /\ RunIteration(NextIteration)

ParseFixed ==
    /\ Parsing
    /\ NextIteration.branch = "fixed"
    /\ RunIteration(NextIteration)

ParseGroup ==
    /\ Parsing
    /\ NextIteration.branch = "group"
    /\ NextIteration.message # "missing close token"
    /\ RunIteration(NextIteration)

ParseMissingClose ==
    /\ Parsing
    /\ NextIteration.branch = "group"
    /\ NextIteration.message = "missing close token"
    /\ RunIteration(NextIteration)

ParseEnd ==
    /\ Parsing
    /\ NextIteration.branch = "end"
    /\ NextIteration.outcome = "break"
    /\ RunIteration(NextIteration)

ParseExpectedEnd ==
    /\ Parsing
    /\ NextIteration.branch = "end"
    /\ NextIteration.outcome = "panic"
    /\ RunIteration(NextIteration)

(***************************************************************************)
(* generate_regexp.                                                        *)
(***************************************************************************)
\* escape_regexp with the replacement left out.
escape_regexp_identity(str) == str

RECURSIVE escape_regexp(_)
\* str.replace("/", "\\/")
escape_regexp(str) ==
    IF str = <<>> THEN <<>>
    ELSE IF Head(str) = "/" THEN <<"\\", "/">> \o escape_regexp(Tail(str))
    ELSE <<Head(str)>> \o escape_regexp(Tail(str))

generate_segment_wildcard_regexp(opts) ==
    "[^" \o Str(escape_regexp(OptionToString(opts.delimiter))) \o "]+?"

full_wildcard_regexp == ".*"

\* impl Display for Modifier
ModifierText(modifier) ==
    CASE modifier = "Optional" -> "?"
      [] modifier = "ZeroOrMore" -> "*"
      [] modifier = "OneOrMore" -> "+"

\* The text pushed for Part::FixedText { value, modifier }.
render_fixed_text(value, modifier) ==
    IF modifier # None
    THEN "(?:" \o Str(escape_regexp(value)) \o ")" \o ModifierText(modifier)
    ELSE Str(escape_regexp(value))

\* render_without_affix with the modifier applied to the capturing group itself.
render_without_affix_direct(regexp, modifier) ==
    IF modifier = None THEN "(" \o regexp \o ")"
    ELSE "(" \o regexp \o ")" \o ModifierText(modifier)

\* The text pushed when the escaped prefix and suffix are both empty.
render_without_affix(regexp, modifier) ==
    IF modifier = None THEN "(" \o regexp \o ")"
    ELSE IF modifier = "Optional" THEN "(" \o regexp \o ")" \o ModifierText(modifier)
    ELSE "((?:" \o regexp \o ")" \o ModifierText(modifier) \o ")"

\* render_with_affix with each repeated fragment in a capturing group.
render_with_affix_capturing(prefix, regexp, suffix, modifier) ==
    IF modifier = None
    THEN "(?:" \o prefix \o "(" \o regexp \o ")" \o suffix \o ")"
    ELSE IF modifier = "Optional"
    THEN "(?:" \o prefix \o "(" \o regexp \o ")" \o suffix \o ")?"
    ELSE IF modifier = "ZeroOrMore"
    THEN "(?:" \o prefix \o "((" \o regexp \o ")(?:" \o suffix \o prefix
             \o "(" \o regexp \o "))*)" \o suffix \o ")?"
    ELSE "(?:" \o prefix \o "((" \o regexp \o ")(?:" \o suffix \o prefix
             \o "(" \o regexp \o "))*)" \o suffix \o ")"

\* The text pushed otherwise; prefix and suffix are the escaped texts.
render_with_affix(prefix, regexp, suffix, modifier) ==
    IF modifier = None
    THEN "(?:" \o prefix \o "(" \o regexp \o ")" \o suffix \o ")"
    ELSE IF modifier = "Optional"
    THEN "(?:" \o prefix \o "(" \o regexp \o ")" \o suffix \o ")"
             \o ModifierText(modifier)
    ELSE IF modifier = "ZeroOrMore"
    THEN "(?:" \o prefix \o "((?:" \o regexp \o ")(?:" \o suffix \o prefix
             \o "(?:" \o regexp \o "))*)" \o suffix \o ")?"
    ELSE "(?:" \o prefix \o "((?:" \o regexp \o ")(?:" \o suffix \o prefix
             \o "(?:" \o regexp \o "))*)" \o suffix \o ")"

\* The regexp of the match arm of a wildcard part.
part_regexp(part, opts) ==
    IF part.type = "SegmentWildcard"
    THEN generate_segment_wildcard_regexp(opts)
    ELSE full_wildcard_regexp

\* The text one iteration of the loop pushes for a wildcard part.
render_placeholder(part, opts) ==
    LET prefix == escape_regexp(part.prefix)
        suffix == escape_regexp(part.suffix)
    IN IF prefix = <<>> /\ suffix = <<>>
       THEN render_without_affix(part_regexp(part, opts), part.modifier)
       ELSE render_with_affix(Str(prefix), part_regexp(part, opts), Str(suffix),
                              part.modifier)

\* regexp_for_pattern calls generate_regexp on the parser's parts: "^".
GenStart ==
    /\ pc = "generate"
    /\ status = "running"
    /\ result' = "^"
    /\ gen_index' = 0
    /\ pc' = "generate_loop"
    /\ UNCHANGED <<input, options, status, error, pos, tokens, index,
                   pending_fixed_value, parts>>

\* The loop of generate_regexp is at a part, which has this type.
AtPart(types) ==
    /\ pc = "generate_loop"
    /\ status = "running"
    /\ gen_index < Len(parts)
    /\ parts[gen_index + 1].type \in types

GenFixedText ==
    /\ AtPart({"FixedText"})
    /\ LET part == parts[gen_index + 1] IN
         result' = result \o render_fixed_text(part.value, part.modifier)
    /\ gen_index' = gen_index + 1
    /\ UNCHANGED <<input, options, pc, status, error, pos, tokens, index,
                   pending_fixed_value, parts>>

\* A wildcard part; the arm of Part::RegExp is todo!().
GenPlaceholder ==
    /\ AtPart({"SegmentWildcard", "FullWildcard", "RegExp"})
    /\ gen_index' = gen_index + 1
    /\ IF parts[gen_index + 1].type = "RegExp"
       THEN Abort("not yet implemented") /\ UNCHANGED result
       ELSE /\ result' = result \o render_placeholder(parts[gen_index + 1], options)
            /\ UNCHANGED <<pc, status, error>>
    /\ UNCHANGED <<input, options, pos, tokens, index, pending_fixed_value, parts>>

\* result.push('$'); regexp_for_pattern returns the result.
GenFinish ==
    /\ pc = "generate_loop"
    /\ status = "running"
    /\ gen_index = Len(parts)
    /\ result' = result \o "$"
    /\ pc' = "done"
    /\ status' = "ok"
    /\ UNCHANGED <<input, options, error, pos, tokens, index,
                   pending_fixed_value, parts, gen_index>>

(***************************************************************************)
(* The specification.                                                      *)
(***************************************************************************)
Next ==
    \/ TokAsterisk
    \/ TokPlus
    \/ TokQuestionMark
    \/ TokBackslash
    \/ TokOpen
    \/ TokClose
    \/ TokName
    \/ TokRegExp
    \/ TokParenthesesMissmatch
    \/ TokRegExpTodo
    \/ TokChar
    \/ TokEnd
    \/ ParsePlaceholder
    \/ ParseFixed
    \/ ParseGroup
    \/ ParseMissingClose
    \/ ParseEnd
    \/ ParseExpectedEnd
    \/ GenStart
    \/ GenFixedText
    \/ GenPlaceholder
    \/ GenFinish

Spec == Init /\ [][Next]_vars

(***************************************************************************)
(* Properties.                                                             *)
(***************************************************************************)
Last(s) == s[Len(s)]

\* The text of s with each "/" replaced by backslash-"/".
EscapedText(s) ==
    Str([i \in 1..Len(s) |-> IF s[i] = "/" THEN "\\/" ELSE s[i]])

NoCharIn(s, chars) == \A i \in 1..Len(s) : s[i] \notin chars

\* C1, as stated: for every Options value, a pattern with none of the
\* characters : { ( * ? + compiles to "^" + escaped pattern + "$".
C1_Original ==
    (pc = "done" /\ NoCharIn(input, {":", "{", "(", "*", "?", "+"}))
        => (status = "ok" /\ result = "^" \o EscapedText(input) \o "$")

\* C1, amended: for every Options value, a pattern with none of the
\* characters : { } ( * ? + and backslash compiles to "^" + escaped
\* pattern + "$", each "/" escaped as backslash-"/".
C1_LiteralPattern ==
    (pc = "done" /\ NoCharIn(input, {":", "{", "}", "(", "*", "?", "+", "\\"}))
        => (status = "ok" /\ result = "^" \o EscapedText(input) \o "$")

C1_Witness ==
    /\ pc = "done"
    /\ input = <<"a", "/", ")">>
    /\ options.prefix = "a"
    /\ result = "^a\\/)$"

\* The fragment of a wildcard part: "[^" + escaped delimiter + "]+?" for a
\* segment wildcard, ".*" for a full wildcard.
Fragment(part) ==
    IF part.type = "SegmentWildcard"
    THEN "[^" \o EscapedText(OptionToString(options.delimiter)) \o "]+?"
    ELSE ".*"

\* The generator is about to render a wildcard part.
AtWildcard ==
    /\ pc = "generate_loop"
    /\ status = "running"
    /\ gen_index < Len(parts)
    /\ parts[gen_index + 1].type \in {"SegmentWildcard", "FullWildcard"}

C2_Expected(F, modifier) ==
    CASE modifier = None -> "(" \o F \o ")"
      [] modifier = "Optional" -> "(" \o F \o ")?"
      [] modifier = "ZeroOrMore" -> "((?:" \o F \o ")*)"
      [] modifier = "OneOrMore" -> "((?:" \o F \o ")+)"

C2_Step ==
    /\ (AtWildcard /\ parts[gen_index + 1].prefix = <<>>
                   /\ parts[gen_index + 1].suffix = <<>>)
          => result' = result \o C2_Expected(Fragment(parts[gen_index + 1]),
                                             parts[gen_index + 1].modifier)
    /\ (pc' = "done" /\ input = <<":", "f", "o", "o">> /\ options.delimiter = "/")
          => result' = "^([^\\/]+?)$"
    /\ (pc' = "done" /\ input = <<"{", ":", "f", "o", "o", "}", "?">>
                     /\ options.delimiter = "/")
          => result' = "^([^\\/]+?)?$"

\* C2: a wildcard part with empty prefix and suffix is rendered as one
\* capturing group around its fragment F: "(F)" without modifier, "(F)?" for
\* Optional, "((?:F)*)" for ZeroOrMore and "((?:F)+)" for OneOrMore; with
\* delimiter "/", ":foo" compiles to "^([^\/]+?)$" and "{:foo}?" to
\* "^([^\/]+?)?$".
C2_NoAffixRendering == [][C2_Step]_vars

\* ":*" is a segment wildcard with the ZeroOrMore modifier and no affix.
C2_Witness ==
    /\ pc = "done"
    /\ input = <<":", "*">>
    /\ options.delimiter = "/"
    /\ result = "^((?:[^\\/]+?)*)$"

\* The FixedText part a flush of the pending fixed value pushes, if any.
ParsePending ==
    IF pending_fixed_value = <<>> THEN <<>> ELSE <<FixedText(pending_fixed_value, None)>>

\* The parser is about to run the placeholder arm with a Char token in front
\* of a Name or Asterisk token: tokens[index + 1] is that Char token.
AtCharBeforeWildcard ==
    /\ Parsing
    /\ tokens[index + 1].type = "Char"
    /\ tokens[index + 2].type \in {"Name", "Asterisk"}
    /\ tokens[index + 3].type # "RegExp"

C3_Step ==
    /\ AtCharBeforeWildcard =>
          LET chr == tokens[index + 1].value IN
          /\ Len(parts') > 0
          /\ Last(parts').type \in {"SegmentWildcard", "FullWildcard"}
          /\ IF options.prefix # None /\ chr = <<options.prefix>>
             THEN /\ Last(parts').prefix = chr
                  /\ Len(parts') = Len(parts) + Len(ParsePending) + 1
             ELSE /\ Last(parts').prefix = <<>>
                  /\ Len(parts') = Len(parts) + 2
                  /\ parts'[Len(parts') - 1] = FixedText(pending_fixed_value \o chr, None)
    /\ (pc' = "done" /\ options = [delimiter |-> "/", prefix |-> "/"]
          /\ input = <<"/", ":", "f", "o", "o", "/", ":", "b", "a", "r", "?">>)
          => result' = "^(?:\\/([^\\/]+?))(?:\\/([^\\/]+?))?$"

\* C3: outside a brace group the Char token in front of a placeholder becomes
\* the placeholder's prefix if and only if it equals Options.prefix; in every
\* other case (another character, or Options.prefix unset) it is appended to
\* the pending literal text and the prefix is empty; with delimiter = prefix
\* = "/", "/:foo/:bar?" compiles to "^(?:\/([^\/]+?))(?:\/([^\/]+?))?$".
C3_PrefixRule == [][C3_Step]_vars

TextTypes == {"Char", "EscapedChar"}

\* The position in tokens (from 1) of the first token after the text that
\* follows the Open token at position index + 1.
GroupTextEnd ==
    CHOOSE k \in (index + 2)..Len(tokens) :
        /\ tokens[k].type \notin TextTypes
        /\ \A j \in (index + 2)..(k - 1) : tokens[j].type \in TextTypes

\* The parser is about to parse a brace group that holds literal text only.
AtLiteralGroup ==
    /\ Parsing
    /\ tokens[index + 1].type = "Open"
    /\ tokens[GroupTextEnd].type = "Close"

GroupText ==
    [j \in 1..(GroupTextEnd - index - 2) |-> tokens[index + 1 + j].value[1]]

GroupModifier ==
    LET type == tokens[GroupTextEnd + 1].type IN
    CASE type = "QuestionMark" -> "Optional"
      [] type = "Asterisk" -> "ZeroOrMore"
      [] type = "Plus" -> "OneOrMore"
      [] OTHER -> None

ModifierChar(modifier) ==
    CASE modifier = "Optional" -> "?"
      [] modifier = "ZeroOrMore" -> "*"
      [] modifier = "OneOrMore" -> "+"

\* The characters of the Char tokens, in order.
CharsOf(toks) ==
    LET cs == SelectSeq(toks, LAMBDA t : t.type = "Char")
    IN [i \in 1..Len(cs) |-> cs[i].value[1]]

C4_Step ==
    /\ AtLiteralGroup =>
          IF GroupModifier = None
          THEN /\ pending_fixed_value' = pending_fixed_value \o GroupText
               /\ parts' = parts
          ELSE /\ pending_fixed_value' = <<>>
               /\ parts' = parts \o ParsePending \o
                             (IF GroupText = <<>>
                              THEN <<>>
                              ELSE <<FixedText(GroupText, GroupModifier)>>)
    /\ (/\ pc = "generate_loop"
        /\ status = "running"
        /\ gen_index < Len(parts)
        /\ parts[gen_index + 1].type = "FixedText"
        /\ parts[gen_index + 1].modifier # None)
          => result' = result \o "(?:" \o EscapedText(parts[gen_index + 1].value)
                              \o ")" \o ModifierChar(parts[gen_index + 1].modifier)
    /\ (/\ Parsing
        /\ pc' = "generate"
        /\ \A i \in 1..Len(tokens) : tokens[i].type \in {"Char", "Open", "Close", "End"})
          => parts' = IF CharsOf(tokens) = <<>>
                      THEN <<>>
                      ELSE <<FixedText(CharsOf(tokens), None)>>
    /\ (pc' = "done" /\ input = <<"{", "f", "o", "o", "}">>) => result' = "^foo$"
    /\ (pc' = "done" /\ input = <<"{", "b", "a", "r", "}", "?">>)
          => result' = "^(?:bar)?$"

\* C4: a brace group that holds only literal text is compiled as fixed text:
\* without a modifier its text is appended to the pending literal buffer, so
\* it merges with adjacent literal text into one FixedText part ("{foo}"
\* compiles to "^foo$"); with a modifier m and non-empty text the pending
\* buffer is flushed and one FixedText part with that modifier is emitted,
\* rendered "(?:text)m" ("{bar}?" compiles to "^(?:bar)?$"); with a modifier
\* and empty text nothing is emitted for the group.
C4_BracedLiteral == [][C4_Step]_vars

\* "a{/}?a": the pending "a" is flushed, the group is an optional part.
C4_Witness ==
    /\ pc = "done"
    /\ input = <<"a", "{", "/", "}", "?", "a">>
    /\ parts = <<FixedText(<<"a">>, None), FixedText(<<"/">>, "Optional"),
                 FixedText(<<"a">>, None)>>
    /\ result = "^a(?:\\/)?a$"

\* "a{a}a": the text of the group merges with the text around it.
C4_WitnessMerged ==
    /\ pc = "done"
    /\ input = <<"a", "{", "a", "}", "a">>
    /\ parts = <<FixedText(<<"a", "a", "a">>, None)>>
    /\ result = "^aaa$"

\* C5: whenever a placeholder carries a RegExp token "(R)", the parser emits
\* a custom-regex part for it and the generator renders R verbatim as the
\* captured fragment under the usual prefix / suffix / modifier bracketing;
\* with delimiter = prefix = "/", "/:foo(bar)?" compiles to "^(?:\/(bar))?$"
\* and "{a:foo(bar)b}?" to "^(?:a(bar)b)?$".
C5_RegExpPart ==
    /\ (pc \in {"generate", "generate_loop", "done"} /\ status \in {"running", "ok"})
          => \A i \in 1..Len(tokens) :
                tokens[i].type = "RegExp"
                   => \E j \in 1..Len(parts) :
                         /\ parts[j].type = "RegExp"
                         /\ parts[j].value = tokens[i].value
    /\ (pc = "done" /\ options = [delimiter |-> "/", prefix |-> "/"]
          /\ input = <<"/", ":", "f", "o", "o", "(", "b", "a", "r", ")", "?">>)
          => (status = "ok" /\ result = "^(?:\\/(bar))?$")
    /\ (pc = "done" /\ options = [delimiter |-> "/", prefix |-> "/"]
          /\ input = <<"{", "a", ":", "f", "o", "o", "(", "b", "a", "r", ")", "b",
                       "}", "?">>)
          => (status = "ok" /\ result = "^(?:a(bar)b)?$")

\* The tokenizer is about to read a "(" as the start of a token.
AtOpenParen ==
    /\ pc = "tokenize"
    /\ status = "running"
    /\ pos < Len(input)
    /\ input[pos + 1] = "("

\* The parenthesis depth after input[from .. to], starting from depth 1 just
\* after the opening "(" at position from - 1.
DepthAfter(from, to) ==
    1 + Cardinality({k \in from..to : input[k] = "("})
      - Cardinality({k \in from..to : input[k] = ")"})

\* The positions at which the group opened at position pos + 1 closes.
ClosingPositions ==
    {k \in (pos + 2)..Len(input) : DepthAfter(pos + 2, k) = 0}

Min(S) == CHOOSE x \in S : \A y \in S : x <= y

C6_Step ==
    AtOpenParen =>
        IF ClosingPositions = {}
        THEN /\ status' = "err"
             /\ error' = "ParenthesesMissmatch"
             /\ tokens' = tokens
        ELSE /\ status' = "running"
             /\ tokens' = Append(tokens, Token("RegExp",
                             SubSeq(input, pos + 2, Min(ClosingPositions) - 1)))
             /\ pos' = Min(ClosingPositions)

\* C6: inside a custom regexp group tokenize tracks the parenthesis depth (1
\* at the opening "(", +1 on "(", -1 on ")", closed at depth 0): if the input
\* ends before the depth is 0 again ("(abc", "(a(b)") it returns the
\* ParenthesesMismatch error and no tokens; otherwise it emits one RegExp
\* token whose payload is the text between the outermost parentheses.
C6_RegExpDepth == [][C6_Step]_vars

\* C6 for groups whose characters up to the end of the scan are all ASCII.
C6_RegExpDepthAscii ==
    [][(\A k \in 1..Len(input) : is_ascii(input[k])) => C6_Step]_vars

\* The tokenizer returned Ok(tokens): the sequence ends with End.
Tokenized == tokens # <<>> /\ Last(tokens).type = "End"

\* The first brace group of the pattern follows literal characters only and
\* no "}" token closes it.
UnclosedGroup ==
    /\ Tokenized
    /\ \E k \in 1..Len(tokens) :
          /\ tokens[k].type = "Open"
          /\ \A j \in 1..(k - 1) : tokens[j].type = "Char"
          /\ \A j \in (k + 1)..Len(tokens) : tokens[j].type # "Close"

\* C7: for every pattern in which a "{" group is not followed (after its
\* prefix text, Name, regexp-or-wildcard and suffix text) by a "}" token, such
\* as "{abc", compilation returns the error MissingClosingCurly: it neither
\* aborts the process nor returns a regular expression.
C7_MissingClosingCurly ==
    (pc = "done" /\ UnclosedGroup)
        => (status = "err" /\ error = "MissingClosingCurly")

IsWildcardOrRegExp(part) == part.type \in {"SegmentWildcard", "FullWildcard", "RegExp"}

\* C8: after a successful parse the names of the placeholder parts are
\* pairwise distinct, and a pattern in which two placeholders get the same
\* name (":a/:a", "*/*") is rejected with DuplicateName.
C8_UniqueNames ==
    /\ (pc \in {"generate", "generate_loop", "done"} /\ status \in {"running", "ok"})
          => \A i, j \in 1..Len(parts) :
                (i # j /\ IsWildcardOrRegExp(parts[i]) /\ IsWildcardOrRegExp(parts[j]))
                   => parts[i].name # parts[j].name
    /\ (pc = "done" /\ input \in {<<":", "a", "/", ":", "a">>, <<"*", "/", "*">>})
          => (status = "err" /\ error = "DuplicateName")

\* The tokenizer is about to read a backslash as the start of a token.
AtBackslash ==
    /\ pc = "tokenize"
    /\ status = "running"
    /\ pos < Len(input)
    /\ input[pos + 1] = "\\"

C9_Step ==
    AtBackslash =>
        IF pos + 1 < Len(input)
        THEN /\ status' = "running"
             /\ tokens' = Append(tokens, Token("EscapedChar", <<input[pos + 2]>>))
             /\ pos' = pos + 2
        ELSE /\ status' = "err"
             /\ error' = "UnexpectedEnd"

\* C9: in tokenize a backslash followed by a character c produces exactly one
\* EscapedChar(c) token and consumes both characters, and a backslash that is
\* the last character of the input makes tokenize fail with UnexpectedEnd.
C9_EscapedChar == [][C9_Step]_vars

\* The generator is about to render a wildcard part that has a prefix or a
\* suffix.
AtWildcardWithAffix ==
    /\ AtWildcard
    /\ ~(parts[gen_index + 1].prefix = <<>> /\ parts[gen_index + 1].suffix = <<>>)

\* The rendering C10 states, for escaped prefix P, fragment F, escaped suffix S.
C10_OriginalExpected(P, F, S, modifier) ==
    CASE modifier = None -> "(?:" \o P \o "(" \o F \o ")" \o S \o ")"
      [] modifier = "Optional" -> "(?:" \o P \o "(" \o F \o ")" \o S \o ")?"
      [] modifier = "ZeroOrMore" ->
            "(?:" \o P \o "((" \o F \o ")(?:" \o S \o P \o "(" \o F \o "))*)" \o S \o ")?"
      [] modifier = "OneOrMore" ->
            "(?:" \o P \o "((" \o F \o ")(?:" \o S \o P \o "(" \o F \o "))*)" \o S \o ")"

\* The same with every fragment occurrence inside the repetition in a
\* non-capturing group.
C10_Expected(P, F, S, modifier) ==
    CASE modifier = None -> "(?:" \o P \o "(" \o F \o ")" \o S \o ")"
      [] modifier = "Optional" -> "(?:" \o P \o "(" \o F \o ")" \o S \o ")?"
      [] modifier = "ZeroOrMore" ->
            "(?:" \o P \o "((?:" \o F \o ")(?:" \o S \o P \o "(?:" \o F \o "))*)"
                  \o S \o ")?"
      [] modifier = "OneOrMore" ->
            "(?:" \o P \o "((?:" \o F \o ")(?:" \o S \o P \o "(?:" \o F \o "))*)"
                  \o S \o ")"

\* C10, as stated: a placeholder part with a non-empty escaped prefix P or
\* suffix S and fragment F is rendered "(?:P(F)S)", "(?:P(F)S)?" for Optional,
\* "(?:P((F)(?:SP(F))*)S)?" for ZeroOrMore and the same without the trailing
\* "?" for OneOrMore.
C10_Original ==
    [][AtWildcardWithAffix =>
          result' = result \o C10_OriginalExpected(
                                 EscapedText(parts[gen_index + 1].prefix),
                                 Fragment(parts[gen_index + 1]),
                                 EscapedText(parts[gen_index + 1].suffix),
                                 parts[gen_index + 1].modifier)]_vars

\* C10, amended: a placeholder part with a non-empty escaped prefix P or
\* suffix S and fragment F is rendered "(?:P(F)S)", "(?:P(F)S)?" for Optional,
\* "(?:P((?:F)(?:SP(?:F))*)S)?" for ZeroOrMore (one capturing group that holds
\* a first fragment and zero or more suffix + prefix + fragment repetitions,
\* each fragment in a non-capturing group) and the same without the trailing
\* "?" for OneOrMore.
C10_AffixRendering ==
    [][AtWildcardWithAffix =>
          result' = result \o C10_Expected(
                                 EscapedText(parts[gen_index + 1].prefix),
                                 Fragment(parts[gen_index + 1]),
                                 EscapedText(parts[gen_index + 1].suffix),
                                 parts[gen_index + 1].modifier)]_vars

\* "{/*a}*": a full wildcard with prefix "/", suffix "a" and ZeroOrMore.
C10_Witness ==
    /\ pc = "done"
    /\ input = <<"{", "/", "*", "a", "}", "*">>
    /\ result = "^(?:\\/((?:.*)(?:a\\/(?:.*))*)a)?$"

Tokenizing == pc = "tokenize" /\ status = "running"

C11_Step ==
    /\ Parsing => /\ ~(index' <= index /\ pc' = "parse")
                  /\ index' <= Len(tokens)
    /\ Tokenizing => /\ ~(pos' <= pos /\ pc' = "tokenize")
                     /\ pos' <= Len(input)

\* C11: on the tokens of a successful tokenize (one End token, in last
\* position) Parser::parse terminates: every iteration of its loop consumes
\* at least one token (the cursor grows, and never beyond the number of
\* tokens, which therefore bounds the number of iterations) or ends the parse
\* with success or failure; tokenize's scans and consume_text likewise
\* advance and stop at or before the end of their input.
C11_Termination == [][C11_Step]_vars

\* "{a}a": the parser ran two iterations on four tokens and returned.
C11_Witness ==
    /\ pc = "generate"
    /\ input = <<"{", "a", "}", "a">>
    /\ Len(tokens) = 5
    /\ index = 5

\* The messages of the failed assert! checks of add_part.
AssertMessages ==
    {"assertion failed: suffix.is_empty()",
     "assertion failed: regexp_or_wildcard.is_some()"}

\* The parser is about to run the arm of the Open token.
AtGroup == Parsing /\ tokens[index + 1].type = "Open"

\* The name, regexp-or-wildcard and suffix arguments that arm passes to
\* add_part (lines 142-151 of parse).
GroupArguments ==
    LET prefix == consume_text(tokens, index + 1)
        name == try_consume_token(tokens, prefix.index, "Name")
        rw == try_consume_regexp_or_wildcard(tokens, name.index, name.token)
        suffix == consume_text(tokens, rw.index)
    IN [name |-> name.token, regexp_or_wildcard |-> rw.token, suffix |-> suffix.text]

\* C12: on the tokens of tokenize, whenever add_part is reached with neither a
\* Name token nor a regexp-or-wildcard token its suffix argument is empty, so
\* neither `assert!(suffix.is_empty())` nor
\* `assert!(regexp_or_wildcard.is_some())` ever fails.
C12_AssertsHold ==
    /\ error \notin AssertMessages
    /\ (/\ AtGroup
        /\ ~IsSome(GroupArguments.name)
        /\ ~IsSome(GroupArguments.regexp_or_wildcard))
          => GroupArguments.suffix = <<>>

\* "{ab}?": add_part ran with the text "ab", no name, no regexp or wildcard
\* and a modifier, and passed its assert.
C12_Witness ==
    /\ pc = "done"
    /\ status = "ok"
    /\ input = <<"{", "a", "b", "}", "?">>
    /\ parts = <<FixedText(<<"a", "b">>, "Optional")>>

\* The parser has been created on the tokens of a successful tokenize.
ParserCreated == pc \in {"parse", "generate", "generate_loop", "done"} /\ Tokenized

\* C13: during Parser::parse on tokens that end with the one End token the
\* cursor satisfies index < tokens.len() at every token access (at the head
\* of an iteration and at every access inside it); the End token is consumed
\* only by the final `require End` step, after which the loop is left and no
\* token is read.
C13_IndexInBounds ==
    /\ error # "index out of bounds"
    /\ Parsing => /\ index < Len(tokens)
                  /\ NextIteration.message # "index out of bounds"
    /\ ParserCreated =>
          /\ index <= Len(tokens)
          /\ \A i \in 1..Len(tokens) :
                tokens[i].type = "End" <=> i = Len(tokens)
          /\ index = Len(tokens) => pc # "parse"

\* "/:foo?": the modifier is read at the token before End, End is consumed by
\* the last iteration and the parser has returned.
C13_Witness ==
    /\ pc = "generate"
    /\ input = <<"/", ":", "f", "o", "o", "?">>
    /\ Len(tokens) = 4
    /\ index = 4

====
